---- MODULE Spec2Model ----
(***************************************************************************)
(* Model of src/validators/with_default.rs: the "default" decorator        *)
(* validator of pydantic-core.  A schema is built once into a              *)
(* WithDefaultValidator (or a build error); the validator is then called   *)
(* through validate and default_value.  The two methods call each other,   *)
(* so the Rust call stack is explicit state: every frame is one invocation *)
(* of validate or default_value, and a frame that calls out waits at pc    *)
(* "await" for the callee's return value in ret.                           *)
(***************************************************************************)
EXTENDS Integers, Sequences, FiniteSets, TLC

\* ---------------------------------------------------------------- bounds
\* Python objects are the integers 0..MaxVal.
MaxVal == 1
\* Frames the native stack holds before the process dies of stack overflow.
\* validate and default_value never enter the RecursionGuard they are handed,
\* so the native stack is the only limit on their mutual recursion.
MaxStack == 4
\* Top-level calls made on one built validator.
MaxCalls == 2

VARIABLES phase, schema, config, build_context, build_err, validator,
          stack, ret, call, calls,
          callInner, callDefault, callFactory, totDefault, totFactory, lastProduced

vars == <<phase, schema, config, build_context, build_err, validator,
          stack, ret, call, calls,
          callInner, callDefault, callFactory, totDefault, totFactory, lastProduced>>

\* ------------------------------------------------------------ data model
Values == 0..MaxVal
NoVal == -1
Absent == "absent"

\* Option<impl Into<LocItem>>: <<>> is None, <<item>> is Some(item).
OuterLocs == {<<>>, <<"field">>}

\* ValError: LineErrors (a cause and the location chain, outermost segment
\* first), InternalErr (a Python exception) and the Omit sentinel.
NoErr == [kind |-> "none", cause |-> "", loc |-> <<>>]
Omit == [kind |-> "Omit", cause |-> "", loc |-> <<>>]
InternalErr == [kind |-> "InternalErr", cause |-> "factory raised", loc |-> <<>>]
LineErrors(cause, loc) == [kind |-> "LineErrors", cause |-> cause, loc |-> loc]

\* The failures an inner validator reports: at the value itself, or at an
\* item inside it.
InnerErrors == {LineErrors("int_parsing", <<>>), LineErrors("int_parsing", <<"0">>)}

\* ValResult<PyObject> and ValResult<Option<PyObject>>.
Ok(v) == [tag |-> "Ok", val |-> v, err |-> NoErr]
Some(v) == [tag |-> "Some", val |-> v, err |-> NoErr]
None == [tag |-> "None", val |-> NoVal, err |-> NoErr]
Err(e) == [tag |-> "Err", val |-> NoVal, err |-> e]
NoRet == [tag |-> "pending", val |-> NoVal, err |-> NoErr]

\* The inner CombinedValidator: any deterministic map from an input to a
\* (possibly coerced) value or to a failure.
InnerResults == {Ok(v) : v \in Values} \cup {Err(e) : e \in InnerErrors}
InnerValidators == [Values -> InnerResults]

\* enum DefaultType
DefaultNone == [kind |-> "None", val |-> NoVal]
DefaultLiteral(v) == [kind |-> "Default", val |-> v]
DefaultFactory == [kind |-> "DefaultFactory", val |-> NoVal]

\* The schema dict of a "default" validator, and the ambient config.
Schemas ==
    [default : Values \cup {NoVal},
     default_factory : BOOLEAN,
     on_error : {Absent, "raise", "omit", "default"},
     validate_default : {Absent, "true", "false"},
     sub_ok : BOOLEAN,
     sub : InnerValidators]
Configs == [validate_default : {Absent, "true", "false"}]
NoSchema == [none |-> TRUE]
NoValidator == [none |-> TRUE]
NoCall == [fn |-> "none", input |-> NoVal, outer_loc |-> <<>>]

\* ----------------------------------------------------------------- build
BuildOk(v) == [ok |-> TRUE, val |-> v, msg |-> ""]
BuildErr(m) == [ok |-> FALSE, val |-> DefaultNone, msg |-> m]

\* DefaultType::new with the first match arm lost: a schema with both keys
\* builds with the literal.
DefaultTypeNew_AllowsBoth(s) ==
    CASE s.default # NoVal -> BuildOk(DefaultLiteral(s.default))
      [] s.default = NoVal /\ s.default_factory -> BuildOk(DefaultFactory)
      [] OTHER -> BuildOk(DefaultNone)

\* DefaultType::new
DefaultTypeNew(s) ==
    CASE s.default # NoVal /\ s.default_factory ->
           BuildErr("'default' and 'default_factory' cannot be used together")
      [] s.default # NoVal /\ ~s.default_factory -> BuildOk(DefaultLiteral(s.default))
      [] s.default = NoVal /\ s.default_factory -> BuildOk(DefaultFactory)
      [] OTHER -> BuildOk(DefaultNone)

\* The on_error match without the check for a default source.
BuildOnError_Unchecked(s, default) ==
    CASE s.on_error = "raise" -> [ok |-> TRUE, val |-> "Raise", msg |-> ""]
      [] s.on_error = "omit" -> [ok |-> TRUE, val |-> "Omit", msg |-> ""]
      [] s.on_error = "default" -> [ok |-> TRUE, val |-> "Default", msg |-> ""]
      [] OTHER -> [ok |-> TRUE, val |-> "Raise", msg |-> ""]

\* WithDefaultValidator::build, the match on schema["on_error"]
BuildOnError(s, default) ==
    CASE s.on_error = "raise" -> [ok |-> TRUE, val |-> "Raise", msg |-> ""]
      [] s.on_error = "omit" -> [ok |-> TRUE, val |-> "Omit", msg |-> ""]
      [] s.on_error = "default" ->
           IF default.kind = "None"
           THEN [ok |-> FALSE, val |-> "",
                 msg |-> "'on_error = default' requires a default or default_factory"]
           ELSE [ok |-> TRUE, val |-> "Default", msg |-> ""]
      [] OTHER -> [ok |-> TRUE, val |-> "Raise", msg |-> ""]

\* schema_or_config_same(schema, config, "validate_default").unwrap_or(false):
\* the schema's value if present, else the config's, else false.
ValidateDefaultOf(s, c) ==
    IF s.validate_default # Absent THEN s.validate_default = "true"
    ELSE IF c.validate_default # Absent THEN c.validate_default = "true"
    ELSE FALSE

\* WithDefaultValidator::build as a whole: the three outcomes in the order
\* the code reaches them.  build_validator is handed the build context only
\* after both configuration checks have passed.
BuildOutcome(s, c) ==
    LET d == DefaultTypeNew(s)
        oe == BuildOnError(s, d.val)
    IN  IF ~d.ok THEN [ok |-> FALSE, msg |-> d.msg, touched |-> 0, v |-> NoValidator]
        ELSE IF ~oe.ok THEN [ok |-> FALSE, msg |-> oe.msg, touched |-> 0, v |-> NoValidator]
        ELSE IF ~s.sub_ok
             THEN [ok |-> FALSE, msg |-> "sub-schema build failed", touched |-> 1,
                   v |-> NoValidator]
        ELSE [ok |-> TRUE, msg |-> "", touched |-> 1,
              v |-> [default |-> d.val,
                     on_error |-> oe.val,
                     validator |-> s.sub,
                     validate_default |-> ValidateDefaultOf(s, c)]]

Build ==
    /\ phase = "schema"
    /\ LET b == BuildOutcome(schema, config)
       IN  /\ phase' = IF b.ok THEN "ready" ELSE "build_error"
           /\ build_err' = b.msg
           /\ build_context' = build_context + b.touched
           /\ validator' = b.v
    /\ schema' = NoSchema
    /\ config' = NoSchema
    /\ UNCHANGED <<stack, ret, call, calls,
                   callInner, callDefault, callFactory, totDefault, totFactory, lastProduced>>

\* ------------------------------------------------------------ call stack
Frame(fn, input, outer_loc) ==
    [fn |-> fn, input |-> input, outer_loc |-> outer_loc, pc |-> "start"]
Top == stack[Len(stack)]
Running(fn, pc) ==
    /\ phase = "running"
    /\ stack # <<>>
    /\ Top.fn = fn
    /\ Top.pc = pc

\* The top frame returns r to its caller, or to the host when it is the
\* outermost frame.
Return(r) ==
    /\ stack' = SubSeq(stack, 1, Len(stack) - 1)
    /\ ret' = r
    /\ phase' = IF Len(stack) = 1 THEN "done" ELSE phase

\* The top frame calls f and waits for it; a call the native stack has no
\* room for kills the process.
Invoke(f) ==
    IF Len(stack) >= MaxStack
    THEN /\ phase' = "overflow"
         /\ UNCHANGED <<stack, ret>>
    ELSE /\ stack' = Append([stack EXCEPT ![Len(stack)].pc = "await"], f)
         /\ ret' = NoRet
         /\ phase' = phase

\* The unwrap() of a None panics.
Panic ==
    /\ phase' = "panic"
    /\ UNCHANGED <<stack, ret>>

Do(step) ==
    CASE step.act = "return" -> Return(step.ret)
      [] step.act = "call" -> Invoke(step.frame)
      [] OTHER -> Panic

ReturnStep(r) == [act |-> "return", ret |-> r, frame |-> Frame("none", NoVal, <<>>)]
CallStep(f) == [act |-> "call", ret |-> NoRet, frame |-> f]
PanicStep == [act |-> "panic", ret |-> NoRet, frame |-> Frame("none", NoVal, <<>>)]

\* -------------------------------------------------------------- validate
\* ValError::with_outer_location: the segment goes in front of the location
\* of every line error; Omit and InternalErr carry no location.
WithOuterLocation(e, item) ==
    IF e.kind = "LineErrors" THEN [e EXCEPT !.loc = <<item>> \o e.loc] ELSE e

\* validate substituting the default whenever the policy is Default, the
\* inner validator's success included.
ValidateOnInner_SubstituteAlways(self, r) ==
    IF self.on_error = "Default" THEN CallStep(Frame("default_value", NoVal, <<>>))
    ELSE IF r.tag = "Ok" THEN ReturnStep(Ok(r.val))
    ELSE IF self.on_error = "Raise" THEN ReturnStep(Err(r.err))
    ELSE ReturnStep(Err(Omit))

\* validate with the Omit arm returning the inner error.
ValidateOnInner_OmitRaises(self, r) ==
    IF r.tag = "Ok" THEN ReturnStep(Ok(r.val))
    ELSE CASE self.on_error = "Raise" -> ReturnStep(Err(r.err))
           [] self.on_error = "Default" -> CallStep(Frame("default_value", NoVal, <<>>))
           [] OTHER -> ReturnStep(Err(r.err))

\* validate with the Raise arm adding a location segment of its own.
ValidateOnInner_RaiseRelocates(self, r) ==
    IF r.tag = "Ok" THEN ReturnStep(Ok(r.val))
    ELSE CASE self.on_error = "Raise" -> ReturnStep(Err(WithOuterLocation(r.err, "default")))
           [] self.on_error = "Default" -> CallStep(Frame("default_value", NoVal, <<>>))
           [] OTHER -> ReturnStep(Err(Omit))

\* WithDefaultValidator::validate, from the inner validator's result r to
\* the return or to the call of default_value(py, None, ..).
ValidateOnInner(self, r) ==
    IF r.tag = "Ok" THEN ReturnStep(Ok(r.val))
    ELSE CASE self.on_error = "Raise" -> ReturnStep(Err(r.err))
           [] self.on_error = "Default" -> CallStep(Frame("default_value", NoVal, <<>>))
           [] OTHER -> ReturnStep(Err(Omit))

\* Ok(self.default_value(..)?.unwrap()) on default_value's result d.
ValidateOnDefault(d) ==
    CASE d.tag = "Err" -> ReturnStep(d)
      [] d.tag = "Some" -> ReturnStep(Ok(d.val))
      [] OTHER -> PanicStep

ValidateStart ==
    /\ Running("validate", "start")
    /\ Do(ValidateOnInner(validator, validator.validator[Top.input]))
    /\ callInner' = callInner + 1
    /\ UNCHANGED <<schema, config, build_context, build_err, validator, call, calls,
                   callDefault, callFactory, totDefault, totFactory, lastProduced>>

ValidateResume ==
    /\ Running("validate", "await")
    /\ ret # NoRet
    /\ Do(ValidateOnDefault(ret))
    /\ UNCHANGED <<schema, config, build_context, build_err, validator, call, calls,
                   callInner, callDefault, callFactory, totDefault, totFactory, lastProduced>>

\* --------------------------------------------------------- default_value
\* What one call of the factory does: it returns an object or raises.
Raises == -2
FactoryOutcomes == Values \cup {Raises}

\* DefaultType::default_value handing out one stored product of the factory
\* instead of calling it.
DefaultTypeDefaultValue_Memoized(default, produced) ==
    CASE default.kind = "Default" -> [res |-> Some(default.val), calls |-> 0]
      [] default.kind = "DefaultFactory" -> [res |-> Some(0), calls |-> 0]
      [] OTHER -> [res |-> None, calls |-> 0]

\* DefaultType::default_value answering Some(None object) for no source.
DefaultTypeDefaultValue_NoneIsValue(default, produced) ==
    CASE default.kind = "Default" -> [res |-> Some(default.val), calls |-> 0]
      [] default.kind = "DefaultFactory" ->
           [res |-> IF produced = Raises THEN Err(InternalErr) ELSE Some(produced),
            calls |-> 1]
      [] OTHER -> [res |-> Some(0), calls |-> 0]

\* DefaultType::default_value; produced is the outcome of default_factory.call0
\* when there is a factory to call.  calls counts the calls of the factory.
DefaultTypeDefaultValue(default, produced) ==
    CASE default.kind = "Default" -> [res |-> Some(default.val), calls |-> 0]
      [] default.kind = "DefaultFactory" ->
           [res |-> IF produced = Raises THEN Err(InternalErr) ELSE Some(produced),
            calls |-> 1]
      [] OTHER -> [res |-> None, calls |-> 0]

\* default_value validating the default whatever validate_default says.
DefaultValueOnDefault_AlwaysValidates(self, d) ==
    CASE d.tag = "Err" -> ReturnStep(d)
      [] d.tag = "Some" -> CallStep(Frame("validate", d.val, <<>>))
      [] OTHER -> ReturnStep(None)

\* WithDefaultValidator::default_value, from the default source's answer d
\* to the return or to the call of self.validate on the default.
DefaultValueOnDefault(self, d) ==
    CASE d.tag = "Err" -> ReturnStep(d)
      [] d.tag = "Some" ->
           IF self.validate_default
           THEN CallStep(Frame("validate", d.val, <<>>))
           ELSE ReturnStep(Some(d.val))
      [] OTHER -> ReturnStep(None)

\* default_value returning the failure of validate without the outer location.
DefaultValueOnValidated_NoOuterLocation(r, outer_loc) ==
    IF r.tag = "Ok" THEN Some(r.val) ELSE Err(r.err)

\* WithDefaultValidator::default_value, on the result r of self.validate.
DefaultValueOnValidated(r, outer_loc) ==
    IF r.tag = "Ok" THEN Some(r.val)
    ELSE IF outer_loc # <<>>
         THEN Err(WithOuterLocation(r.err, outer_loc[1]))
         ELSE Err(r.err)

DefaultValueStart ==
    /\ Running("default_value", "start")
    /\ \E produced \in FactoryOutcomes :
         LET d == DefaultTypeDefaultValue(validator.default, produced)
         IN  /\ Do(DefaultValueOnDefault(validator, d.res))
             /\ callFactory' = callFactory + d.calls
             /\ totFactory' = totFactory + d.calls
             /\ lastProduced' = IF d.calls > 0 THEN produced ELSE lastProduced
    /\ callDefault' = callDefault + 1
    /\ totDefault' = totDefault + 1
    /\ UNCHANGED <<schema, config, build_context, build_err, validator, call, calls,
                   callInner>>

DefaultValueResume ==
    /\ Running("default_value", "await")
    /\ ret # NoRet
    /\ Return(DefaultValueOnValidated(ret, Top.outer_loc))
    /\ UNCHANGED <<schema, config, build_context, build_err, validator, call, calls,
                   callInner, callDefault, callFactory, totDefault, totFactory, lastProduced>>

\* ------------------------------------------------------------- the host
\* A container or the host calls the built validator: validate on a present
\* value, default_value on an absent one.
Enter(f) ==
    /\ phase \in {"ready", "done"}
    /\ calls < MaxCalls
    /\ phase' = "running"
    /\ stack' = <<f>>
    /\ ret' = NoRet
    /\ call' = [fn |-> f.fn, input |-> f.input, outer_loc |-> f.outer_loc]
    /\ calls' = calls + 1
    /\ callInner' = 0
    /\ callDefault' = 0
    /\ callFactory' = 0
    /\ lastProduced' = NoVal
    /\ UNCHANGED <<schema, config, build_context, build_err, validator,
                   totDefault, totFactory>>

CallValidate == \E input \in Values : Enter(Frame("validate", input, <<>>))

CallDefaultValue == \E outer_loc \in OuterLocs : Enter(Frame("default_value", NoVal, outer_loc))

\* --------------------------------------------------------- specification
Init ==
    /\ phase = "schema"
    /\ schema \in Schemas
    /\ config \in Configs
    /\ build_context = 0
    /\ build_err = ""
    /\ validator = NoValidator
    /\ stack = <<>>
    /\ ret = NoRet
    /\ call = NoCall
    /\ calls = 0
    /\ callInner = 0
    /\ callDefault = 0
    /\ callFactory = 0
    /\ totDefault = 0
    /\ totFactory = 0
    /\ lastProduced = NoVal

Next ==
    \/ Build
    \/ CallValidate
    \/ CallDefaultValue
    \/ ValidateStart
    \/ ValidateResume
    \/ DefaultValueStart
    \/ DefaultValueResume

Spec == Init /\ [][Next]_vars

\* ------------------------------------------------------------ properties
Built == phase \in {"ready", "running", "done", "overflow", "panic"}
Crashed == phase \in {"overflow", "panic"}
InCall(fn) == Built /\ call.fn = fn
Finished == phase = "done"
\* The inner validator's answer on the input of the current validate call.
InnerOnInput == validator.validator[call.input]

\* C1: whenever the inner validator succeeds on the input with V, validate
\* returns Ok(V) whatever on_error, the default source and validate_default
\* are, after one inner call, and neither default_value nor the factory is
\* ever called on the way.
C1_SuccessPassesThrough ==
    (InCall("validate") /\ InnerOnInput.tag = "Ok") =>
        /\ callDefault = 0
        /\ callFactory = 0
        /\ ~Crashed
        /\ Finished => (ret = Ok(InnerOnInput.val) /\ callInner = 1)

C1_Witness ==
    /\ InCall("validate") /\ Finished
    /\ validator.on_error = "Default"
    /\ validator.default.kind = "Default"
    /\ validator.validate_default
    /\ InnerOnInput.tag = "Ok"
    /\ InnerOnInput.val # call.input
    /\ InnerOnInput.val # validator.default.val
    /\ ret = Ok(InnerOnInput.val)

\* C2: with on_error = default, validate_default = true, the inner validator
\* failing on the input and the literal default failing inner validation
\* too, validate terminates: the process never runs out of stack, the inner
\* validator is called once on the input and once on the default, and the
\* call returns the failure default_value produced.
C2_Terminates ==
    (/\ InCall("validate")
     /\ validator.on_error = "Default"
     /\ validator.validate_default
     /\ validator.default.kind = "Default"
     /\ InnerOnInput.tag = "Err"
     /\ validator.validator[validator.default.val].tag = "Err") =>
        /\ phase # "overflow"
        /\ callInner <= 2
        /\ Finished => ret = validator.validator[validator.default.val]

\* C3: with on_error = omit and the inner validator failing on the input,
\* validate fails with the Omit sentinel, not with the inner error, and no
\* default is produced.
C3_OmitOnError ==
    (InCall("validate") /\ validator.on_error = "Omit" /\ InnerOnInput.tag = "Err") =>
        /\ callDefault = 0
        /\ callFactory = 0
        /\ ~Crashed
        /\ Finished => (ret = Err(Omit) /\ ret # InnerOnInput /\ callInner = 1)

C3_Witness ==
    /\ InCall("validate") /\ Finished
    /\ validator.on_error = "Omit"
    /\ validator.default.kind = "DefaultFactory"
    /\ validator.validate_default
    /\ InnerOnInput.tag = "Err"
    /\ ret = Err(Omit)

\* C9: with no default source, default_value returns "no default present"
\* (Ok(None)) for every outer location, on_error and validate_default, and
\* calls neither the inner validator nor a factory.
C9_NoDefaultPresent ==
    (InCall("default_value") /\ validator.default.kind = "None") =>
        /\ callInner = 0
        /\ callFactory = 0
        /\ ~Crashed
        /\ Finished => (ret = None /\ callDefault = 1)

C9_Witness ==
    /\ InCall("default_value") /\ Finished
    /\ validator.default.kind = "None"
    /\ validator.validate_default
    /\ validator.on_error = "Omit"
    /\ call.outer_loc = <<"field">>
    /\ ret = None

\* C10: every validator build returns has a default source when on_error is
\* default, so default_value never hands "no default present" to the
\* unwrap in validate, and the unwrap never panics.
C10_SubstituteHasDefault ==
    Built =>
        /\ validator.on_error = "Default" => validator.default.kind # "None"
        /\ phase # "panic"
        /\ (Running("validate", "await") /\ ret # NoRet) => ret.tag # "None"

C10_Witness ==
    /\ Running("validate", "await")
    /\ validator.on_error = "Default"
    /\ ret.tag = "Some"

\* The case of C5: validate under on_error = default with validate_default
\* false, on an input the inner validator rejects.
SubstituteUnvalidated ==
    /\ InCall("validate")
    /\ validator.on_error = "Default"
    /\ ~validator.validate_default
    /\ InnerOnInput.tag = "Err"

\* C5 as stated: in that case validate returns success with the literal or
\* with the value the factory produced, after exactly one inner call.
C5_AlwaysSucceeds ==
    (SubstituteUnvalidated /\ Finished) =>
        /\ ret.tag = "Ok"
        /\ ret.val = (IF validator.default.kind = "Default"
                      THEN validator.default.val ELSE lastProduced)
        /\ callInner = 1

\* C5 as amended: in that case the inner validator is called exactly once
\* (on the input) and default_value once; a literal default is returned as
\* it is stored; a factory is called once and validate returns the value it
\* produced, or fails with the factory's own exception when the factory
\* raises.  The call never runs out of stack.
C5_SubstituteUnvalidated ==
    SubstituteUnvalidated =>
        /\ ~Crashed
        /\ callInner <= 1
        /\ Finished =>
             /\ callInner = 1
             /\ callDefault = 1
             /\ validator.default.kind = "Default" =>
                  (ret = Ok(validator.default.val) /\ callFactory = 0)
             /\ validator.default.kind = "DefaultFactory" =>
                  /\ callFactory = 1
                  /\ ret = (IF lastProduced = Raises THEN Err(InternalErr)
                            ELSE Ok(lastProduced))

\* The scenario of the spec: a literal default the inner validator would
\* itself reject is returned on an input the inner validator rejects.
C5_Witness ==
    /\ SubstituteUnvalidated /\ Finished
    /\ validator.default.kind = "Default"
    /\ validator.validator[validator.default.val].tag = "Err"
    /\ ret = Ok(validator.default.val)
    /\ callInner = 1

\* C7: with a Factory source every default_value invocation, the ones
\* validate makes under on_error = default included, calls the factory
\* exactly once, so the calls of the factory number the invocations of
\* default_value over any sequence of calls; an unvalidated default is the
\* value of that one call; a Literal source (or none) never calls a factory.
C7_FactoryOncePerDefault ==
    Built =>
        /\ validator.default.kind = "DefaultFactory" =>
             /\ totFactory = totDefault
             /\ callFactory = callDefault
             /\ (InCall("default_value") /\ Finished /\ ~validator.validate_default) =>
                  /\ callFactory = 1
                  /\ ret = (IF lastProduced = Raises THEN Err(InternalErr)
                            ELSE Some(lastProduced))
        /\ validator.default.kind # "DefaultFactory" =>
             (totFactory = 0 /\ callFactory = 0)

\* Two top-level calls that made three default_value invocations between
\* them, one of them inside validate.
C7_Witness ==
    /\ Finished
    /\ validator.default.kind = "DefaultFactory"
    /\ validator.on_error = "Default"
    /\ calls = 2
    /\ callDefault >= 2
    /\ totDefault >= 3
    /\ totFactory = totDefault

\* C4: on_error = "raise", and on_error absent from the schema, both build
\* the Raise policy; under it an inner failure E on the input is returned
\* exactly as it is, the same cause and the same location chain, after one
\* inner call, and no default is produced.
C4_RaisePropagates ==
    /\ [][(/\ phase = "schema"
           /\ schema.on_error \in {Absent, "raise"}
           /\ phase' = "ready") => validator'.on_error = "Raise"]_vars
    /\ []((InCall("validate") /\ validator.on_error = "Raise" /\ InnerOnInput.tag = "Err") =>
            /\ callDefault = 0
            /\ callFactory = 0
            /\ ~Crashed
            /\ Finished => (/\ ret.tag = "Err"
                            /\ ret.err.kind = "LineErrors"
                            /\ ret.err.cause = InnerOnInput.err.cause
                            /\ ret.err.loc = InnerOnInput.err.loc
                            /\ callInner = 1))

C4_Witness ==
    /\ InCall("validate") /\ Finished
    /\ validator.on_error = "Raise"
    /\ validator.default.kind = "Default"
    /\ InnerOnInput.tag = "Err"
    /\ InnerOnInput.err.loc = <<"0">>
    /\ ret = Err(LineErrors("int_parsing", <<"0">>))

\* The default the source hands to default_value in the step just taken: the
\* literal, or what the factory call of that step produced.
ProducedDefault == IF validator.default.kind = "Default" THEN validator.default.val
                   ELSE lastProduced

\* A failure with the outer location in front of its location chain; a
\* failure without a chain (Omit, an exception) stays as it is.
Prepended(e, outer_loc) ==
    [kind |-> e.kind, cause |-> e.cause,
     loc |-> IF e.kind = "LineErrors" THEN outer_loc \o e.loc ELSE e.loc]

\* C6: with a default source and validate_default = true, default_value
\* calls the decorator's own validate on the default the source produced;
\* when that validate returns Ok(v), default_value returns v; when it fails,
\* default_value returns that failure with outer_location in front of its
\* location chain if an outer location was supplied, and unchanged if not.
\* For the policies under which validate returns at once this fixes the
\* result of the whole call from the inner validator's answer on the default.
C6_ValidatedDefault ==
    /\ [][(/\ Running("default_value", "start")
           /\ validator.default.kind # "None"
           /\ validator.validate_default
           /\ phase' = "running"
           /\ ~(validator.default.kind = "DefaultFactory" /\ lastProduced' = Raises)) =>
             /\ Len(stack') = Len(stack) + 1
             /\ stack'[Len(stack')].fn = "validate"
             /\ stack'[Len(stack')].pc = "start"
             /\ stack'[Len(stack')].input =
                  (IF validator.default.kind = "Default" THEN validator.default.val
                   ELSE lastProduced')]_vars
    /\ [][(Running("default_value", "await") /\ ret # NoRet) =>
             /\ Len(stack') = Len(stack) - 1
             /\ ret' = (IF ret.tag = "Ok" THEN Some(ret.val)
                        ELSE Err(Prepended(ret.err, Top.outer_loc)))]_vars
    /\ []((/\ InCall("default_value") /\ Finished
           /\ validator.default.kind # "None"
           /\ validator.validate_default
           /\ validator.on_error # "Default"
           /\ lastProduced # Raises) =>
            LET r == validator.validator[ProducedDefault]
            IN  /\ callInner = 1
                /\ ret = (IF r.tag = "Ok" THEN Some(r.val)
                          ELSE IF validator.on_error = "Omit" THEN Err(Omit)
                          ELSE Err(Prepended(r.err, call.outer_loc))))

\* The scenario of the spec: the factory's product fails at an item, and the
\* failure default_value returns is located under the enclosing field.
C6_Witness ==
    /\ InCall("default_value") /\ Finished
    /\ validator.default.kind = "DefaultFactory"
    /\ validator.validate_default
    /\ validator.on_error = "Raise"
    /\ call.outer_loc = <<"field">>
    /\ lastProduced \in Values
    /\ validator.validator[lastProduced] = Err(LineErrors("int_parsing", <<"0">>))
    /\ ret = Err(LineErrors("int_parsing", <<"field", "0">>))

BothDefaultsMsg == "'default' and 'default_factory' cannot be used together"
NoDefaultMsg == "'on_error = default' requires a default or default_factory"

\* C8: build of a schema that sets both default and default_factory, and of
\* one that sets on_error = "default" with neither, ends in a configuration
\* error with no validator; both checks come before the inner sub-schema is
\* built, so the build context is as it was.
C8_ConfigErrors ==
    /\ [][(/\ phase = "schema"
           /\ \/ schema.default # NoVal /\ schema.default_factory
              \/ /\ schema.on_error = "default"
                 /\ schema.default = NoVal
                 /\ ~schema.default_factory
           /\ phase' # "schema") =>
             /\ phase' = "build_error"
             /\ build_err' \in {BothDefaultsMsg, NoDefaultMsg}
             /\ validator' = NoValidator
             /\ build_context' = build_context]_vars
    /\ []((phase = "build_error" /\ build_err \in {BothDefaultsMsg, NoDefaultMsg}) =>
            (build_context = 0 /\ validator = NoValidator))

C8_Witness ==
    /\ phase = "build_error"
    /\ build_err = NoDefaultMsg
    /\ build_context = 0
    /\ validator = NoValidator

====
